---- MODULE Spec2Model ----
(***************************************************************************)
(* A model of go-mmap: the Mapper (Map and its validation), the platform    *)
(* flag translation (convert), the Mapping object (Bytes, Flush, Unmap) on  *)
(* the Unix and the Windows build, and the chunked Reader.                  *)
(*                                                                          *)
(* int64 values are scaled down to IntBits-bit two's complement integers;   *)
(* the arithmetic of the code (sz+off) wraps at that width.  The operating  *)
(* system is modelled by what its primitives do to the file and to the      *)
(* mapping, and every primitive may fail (parameter "fail" of an operation  *)
(* names the primitive that fails during it, or "none").                    *)
(***************************************************************************)
EXTENDS Integers, Sequences, FiniteSets, TLC

\* ------------------------------------------------------------------ bounds
\* width of the model's int64
IntBits == 4
\* largest size of the backing file
MaxFileSize == 5
\* largest anonymous mapping the operating system grants
MaxAnon == 2

\* _MaxMmapSize, scaled to the model's integer width
MaxMmapSize == 2

MinInt64 == -(2 ^ (IntBits - 1))
MaxInt64 == (2 ^ (IntBits - 1)) - 1
Int64 == MinInt64 .. MaxInt64

\* int64 addition as the machine performs it
Add64(a, b) == ((a + b - MinInt64) % (2 ^ IntBits)) + MinInt64

Byte == 0 .. 1

\* type Prot, type Flag: bit sets
ProtBits == {"PROT_READ", "PROT_WRITE", "PROT_EXEC"}
FlagBits == {"F_COW", "F_HUGETLB", "F_READAHEAD"}

Platforms == {"linux", "darwin", "windows"}
IsUnix(pf) == pf \in {"linux", "darwin"}

\* a Mapper is bound to a file (New) or to none (NewAnon): the value of m.fd
Mappers == {"file", "nil"}

VARIABLES
    platform,   \* the build target
    regular,    \* the backing file is a regular file
    file,       \* the backing file's bytes as ordinary I/O reads them
    p,          \* the Mapping the caller holds
    handles,    \* open file-mapping handles (Windows)
    last,       \* the last public operation: its inputs, its primitive calls, its result
    rd,         \* the Reader call in progress
    panicked    \* the process was terminated by a panic

vars == <<platform, regular, file, p, handles, last, rd, panicked>>

fsize == Len(file)

\* ------------------------------------------------------------ the Mapping
\* off, sz, private, writable: the mapping as the operating system holds it;
\* view: the bytes Bytes() shows; wr: the field Mapping.wr of the Windows
\* build; anon: p.m.fd == nil.  History kept for the properties: reqWrite,
\* reqCow: the request that made it; base: the file when it was made;
\* flushed: Flush returned nil after the last write; retry: an Unmap of it
\* was aborted by a failed flush.
NoMapping ==
    [live |-> FALSE, off |-> 0, sz |-> 0, private |-> FALSE, writable |-> FALSE,
     wr |-> FALSE, anon |-> FALSE, view |-> <<>>, reqWrite |-> FALSE, reqCow |-> FALSE,
     base |-> <<>>, flushed |-> FALSE, retry |-> FALSE]

Zeros(n) == [i \in 1 .. n |-> 0]

\* the operating system can create the mapping that is asked for
OSCanMap(m, sz, off) ==
    IF m = "nil"
    THEN sz > 0 /\ sz <= MaxAnon /\ off = 0
    ELSE sz > 0 /\ off >= 0 /\ off + sz <= fsize

\* the bytes a fresh mapping shows
FreshView(m, sz, off) ==
    IF m = "nil" THEN Zeros(sz) ELSE SubSeq(file, off + 1, off + sz)

\* ---------------------------------------------------------------- convert
MAP_HUGETLB(pf) == IF pf = "linux" THEN {"MAP_HUGETLB"} ELSE {}
MAP_POPULATE(pf) == IF pf = "linux" THEN {"MAP_POPULATE"} ELSE {}

\* convert as it would be if every writable mapping were made private
convert_unix_private(pf, prot, flags) ==
    LET w == "PROT_WRITE" \in prot
        mprot == {"PROT_READ"} \cup (IF w THEN {"PROT_WRITE"} ELSE {})
                    \cup (IF "PROT_EXEC" \in prot THEN {"PROT_EXEC"} ELSE {})
        mflag == (IF w THEN {"MAP_PRIVATE"} ELSE {"MAP_SHARED", "MAP_FILE"})
                    \cup (IF "F_HUGETLB" \in flags THEN MAP_HUGETLB(pf) ELSE {})
                    \cup (IF "F_READAHEAD" \in flags THEN MAP_POPULATE(pf) ELSE {})
    IN  [mprot |-> mprot, mflag |-> mflag]

convert_unix(pf, prot, flags) ==
    LET w == "PROT_WRITE" \in prot
        mprot0 == {"PROT_READ"}
        mflag0 == {"MAP_SHARED", "MAP_FILE"}
        mprot1 == IF w THEN mprot0 \cup {"PROT_WRITE"} ELSE mprot0
        mflag1 == IF w /\ "F_COW" \in flags THEN {"MAP_PRIVATE"} ELSE mflag0
        mprot2 == IF "PROT_EXEC" \in prot THEN mprot1 \cup {"PROT_EXEC"} ELSE mprot1
        mflag2 == IF "F_HUGETLB" \in flags THEN mflag1 \cup MAP_HUGETLB(pf) ELSE mflag1
        mflag3 == IF "F_READAHEAD" \in flags THEN mflag2 \cup MAP_POPULATE(pf) ELSE mflag2
    IN  [mprot |-> mprot2, mflag |-> mflag3]

\* mflag is one of the PAGE_* values, macc a bit set
PAGE_READONLY == 2
PAGE_READWRITE == 4
PAGE_WRITECOPY == 8

\* convert as it would be if F_COW were honoured without PROT_WRITE
convert_windows_cow(prot, flags) ==
    LET w == "PROT_WRITE" \in prot
        cow == "F_COW" \in flags
        mflag0 == IF cow THEN PAGE_WRITECOPY
                  ELSE IF w THEN PAGE_READWRITE ELSE PAGE_READONLY
        macc0 == IF cow THEN {"FILE_MAP_READ", "FILE_MAP_COPY"}
                 ELSE IF w THEN {"FILE_MAP_READ", "FILE_MAP_WRITE"} ELSE {"FILE_MAP_READ"}
        x == "PROT_EXEC" \in prot
    IN  [mflag |-> IF x THEN mflag0 * 16 ELSE mflag0,
         macc |-> IF x THEN macc0 \cup {"FILE_MAP_EXECUTE"} ELSE macc0]

convert_windows(prot, flags) ==
    LET w == "PROT_WRITE" \in prot
        cow == "F_COW" \in flags
        mflag0 == IF w THEN (IF cow THEN PAGE_WRITECOPY ELSE PAGE_READWRITE)
                       ELSE PAGE_READONLY
        macc0 == IF w THEN (IF cow THEN {"FILE_MAP_READ", "FILE_MAP_COPY"}
                                   ELSE {"FILE_MAP_READ", "FILE_MAP_WRITE"})
                      ELSE {"FILE_MAP_READ"}
        x == "PROT_EXEC" \in prot
        macc1 == IF x THEN macc0 \cup {"FILE_MAP_EXECUTE"} ELSE macc0
        mflag1 == IF x THEN mflag0 * 16 ELSE mflag0
    IN  [mflag |-> mflag1, macc |-> macc1]

\* the sharing mode and the write access the operating system gives a mapping
OSPrivate(pf, prot, flags) ==
    IF IsUnix(pf)
    THEN "MAP_PRIVATE" \in convert_unix(pf, prot, flags).mflag
    ELSE "FILE_MAP_COPY" \in convert_windows(prot, flags).macc

OSWritable(pf, prot, flags) ==
    IF IsUnix(pf)
    THEN "PROT_WRITE" \in convert_unix(pf, prot, flags).mprot
    ELSE convert_windows(prot, flags).macc \cap {"FILE_MAP_COPY", "FILE_MAP_WRITE"} # {}

\* the Mapping object a successful creation returns
NewMapping(m, sz, off, prot, flags) ==
    [live |-> TRUE, off |-> off, sz |-> sz,
     private |-> OSPrivate(platform, prot, flags),
     writable |-> OSWritable(platform, prot, flags),
     wr |-> FALSE, anon |-> (m = "nil"),
     view |-> FreshView(m, sz, off),
     reqWrite |-> ("PROT_WRITE" \in prot), reqCow |-> ("F_COW" \in flags),
     base |-> file, flushed |-> FALSE, retry |-> FALSE]

\* the result of creating a mapping: the error, the Mapping, the primitives
\* called, the handles left open by the call, and whether it panicked
MapResult(err, q, calls, opened, panic) ==
    [err |-> err, p |-> q, calls |-> calls, opened |-> opened, panic |-> panic]

\* ------------------------------------------------------------- Unix build
unix_Mmap(m, sz, off, prot, flags, fail) ==
    IF fail = "Mmap" \/ ~OSCanMap(m, sz, off)
    THEN MapResult("os", NoMapping, <<"Mmap">>, 0, FALSE)
    ELSE MapResult("nil", NewMapping(m, sz, off, prot, flags), <<"Mmap">>, 0, FALSE)

mmap_unix(m, sz, off, prot, flags, fail) == unix_Mmap(m, sz, off, prot, flags, fail)

map_anon_unix(m, sz, off, prot, flags, fail) == unix_Mmap(m, sz, off, prot, flags, fail)

\* ---------------------------------------------------------- Windows build
\* m.fd.Name(): os.File.Name dereferences its receiver, so it panics on nil
NamePanics(m) == m = "nil"

do_mmap(m, sz, off, prot, flags, fail) ==
    IF fail = "CreateFileMapping"
    THEN MapResult("os", NoMapping, <<"CreateFileMapping">>, 0, NamePanics(m))
    ELSE IF fail = "MapViewOfFile" \/ ~OSCanMap(m, sz, off)
    THEN MapResult("os", NoMapping, <<"CreateFileMapping", "MapViewOfFile">>, 1,
                   NamePanics(m))
    ELSE MapResult("nil", NewMapping(m, sz, off, prot, flags),
                   <<"CreateFileMapping", "MapViewOfFile">>, 1, FALSE)

\* p.wr = prot&PROT_WRITE != 0 on success
SetWr(r, prot) ==
    IF r.err = "nil"
    THEN [r EXCEPT !.p = [r.p EXCEPT !.wr = ("PROT_WRITE" \in prot)]]
    ELSE r

mmap_windows(m, sz, off, prot, flags, fail) ==
    SetWr(do_mmap(m, sz, off, prot, flags, fail), prot)

map_anon_windows(m, sz, off, prot, flags, fail) ==
    SetWr(do_mmap(m, sz, off, prot, flags, fail), prot)

\* ------------------------------------------------- the build's primitives
mmap(m, sz, off, prot, flags, fail) ==
    IF IsUnix(platform)
    THEN mmap_unix(m, sz, off, prot, flags, fail)
    ELSE mmap_windows(m, sz, off, prot, flags, fail)

map_anon(m, sz, off, prot, flags, fail) ==
    IF IsUnix(platform)
    THEN map_anon_unix(m, sz, off, prot, flags, fail)
    ELSE map_anon_windows(m, sz, off, prot, flags, fail)

\* -------------------------------------------------------------------- Map
\* sz > fsz || (sz+off) > fsz, the sum in int64
OutOfBounds(sz, off, fsz) == sz > fsz \/ Add64(sz, off) > fsz

Map(m, sz, off, prot, flags, fail) ==
    IF m = "nil" THEN map_anon(m, sz, off, prot, flags, fail)
    ELSE IF fail = "Stat" THEN MapResult("stat", NoMapping, <<"Stat">>, 0, FALSE)
    ELSE IF ~regular THEN MapResult("not a regular file", NoMapping, <<"Stat">>, 0, FALSE)
    ELSE IF fsize = 0 THEN MapResult("empty file", NoMapping, <<"Stat">>, 0, FALSE)
    ELSE LET sz1 == IF sz <= 0 THEN fsize ELSE sz IN
         IF OutOfBounds(sz1, off, fsize)
         THEN MapResult("out of bounds", NoMapping, <<"Stat">>, 0, FALSE)
         ELSE IF sz1 > MaxMmapSize
         THEN MapResult("too large", NoMapping, <<"Stat">>, 0, FALSE)
         ELSE LET r == mmap(m, sz1, off, prot, flags, fail)
              IN  [r EXCEPT !.calls = <<"Stat">> \o r.calls]

\* ---------------------------------------------------------- flush, unmap
\* the result of flush and unmap: the error, the Mapping afterwards, the
\* primitives called, the handles closed
OpResult(err, q, calls, closed) ==
    [err |-> err, p |-> q, calls |-> calls, closed |-> closed]

\* unix.Msync(p.buf, fd): one call; its second argument, the flags, is given
\* the file descriptor (-1 for an anonymous mapping)
flush_unix(q, fail) ==
    OpResult(IF fail = "Msync" THEN "os" ELSE "nil", q, <<"Msync">>, 0)

unmap_unix(q, fail) ==
    IF fail = "Munmap"
    THEN OpResult("os", q, <<"Munmap">>, 0)
    ELSE OpResult("nil", NoMapping, <<"Munmap">>, 0)

\* p.m.fd.Fd() is the invalid handle for a nil file
flush_windows(q, fail) ==
    IF fail = "FlushViewOfFile"
    THEN OpResult("os", q, <<"FlushViewOfFile">>, 0)
    ELSE IF q.wr /\ ~q.anon
    THEN OpResult(IF fail = "FlushFileBuffers" THEN "os" ELSE "nil", q,
                  <<"FlushViewOfFile", "FlushFileBuffers">>, 0)
    ELSE OpResult("nil", q, <<"FlushViewOfFile">>, 0)

\* unmap as it would be if the result of the flush were not checked
unmap_windows_unchecked(q, fail) ==
    LET f == flush_windows(q, fail) IN
    IF fail = "UnmapViewOfFile"
    THEN OpResult("os", q, f.calls \o <<"UnmapViewOfFile">>, 0)
    ELSE IF fail = "CloseHandle"
    THEN OpResult("os", NoMapping, f.calls \o <<"UnmapViewOfFile", "CloseHandle">>, 0)
    ELSE OpResult("nil", NoMapping, f.calls \o <<"UnmapViewOfFile", "CloseHandle">>, 1)

unmap_windows(q, fail) ==
    LET f == flush_windows(q, fail) IN
    IF f.err # "nil" THEN f
    ELSE IF fail = "UnmapViewOfFile"
    THEN OpResult("os", q, f.calls \o <<"UnmapViewOfFile">>, 0)
    ELSE IF fail = "CloseHandle"
    THEN OpResult("os", NoMapping, f.calls \o <<"UnmapViewOfFile", "CloseHandle">>, 0)
    ELSE OpResult("nil", NoMapping, f.calls \o <<"UnmapViewOfFile", "CloseHandle">>, 1)

flush(q, fail) ==
    IF IsUnix(platform) THEN flush_unix(q, fail) ELSE flush_windows(q, fail)

unmap(q, fail) ==
    IF IsUnix(platform) THEN unmap_unix(q, fail) ELSE unmap_windows(q, fail)

bytes(q) == q.view

\* the primitives of the build, and those that can fail in an operation
MapPrims == {"Mmap", "CreateFileMapping", "MapViewOfFile"}
FlushPrims == {"Msync", "FlushViewOfFile", "FlushFileBuffers"}
ReleasePrims == {"Munmap", "UnmapViewOfFile", "CloseHandle"}

MapFails ==
    IF IsUnix(platform) THEN {"none", "Stat", "Mmap"}
    ELSE {"none", "Stat", "CreateFileMapping", "MapViewOfFile"}

FlushFails ==
    IF IsUnix(platform) THEN {"none", "Msync"}
    ELSE {"none", "FlushViewOfFile", "FlushFileBuffers"}

UnmapFails ==
    IF IsUnix(platform) THEN {"none", "Munmap"}
    ELSE {"none", "FlushViewOfFile", "FlushFileBuffers", "UnmapViewOfFile", "CloseHandle"}

\* the primitive that failed in an operation, given what it called
Failed(fail, calls) ==
    IF \E i \in 1 .. Len(calls) : calls[i] = fail THEN fail ELSE "none"

\* ------------------------------------------------------------- the caller
NoOp ==
    [op |-> "none", m |-> "file", sz |-> 0, off |-> 0, err |-> "nil",
     failed |-> "none", calls |-> <<>>, q |-> NoMapping]

IdleReader ==
    [pc |-> "idle", off |-> 0, z |-> 0, fsz |-> 0, S |-> 0, wins |-> <<>>,
     live |-> 0, unmapFailed |-> FALSE, n |-> 0, err |-> "nil"]

\* p, err := m.Map(sz, off, prot, flags)
MapCall(m, sz, off, prot, flags, fail) ==
    /\ ~panicked /\ last.op = "none"
    /\ LET r == Map(m, sz, off, prot, flags, fail) IN
        /\ p' = r.p
        /\ handles' = handles + r.opened
        /\ panicked' = r.panic
        /\ last' = [op |-> "Map", m |-> m, sz |-> sz, off |-> off, err |-> r.err,
                    failed |-> (IF r.err \in {"os", "stat"} THEN r.calls[Len(r.calls)]
                                ELSE "none"),
                    calls |-> r.calls, q |-> NoMapping]
    /\ UNCHANGED <<platform, regular, file, rd>>

\* p.Bytes()[i] = b
Write(i, b) ==
    /\ ~panicked /\ p.live /\ p.writable
    /\ i \in 1 .. Len(bytes(p))
    /\ p' = [p EXCEPT !.view[i] = b, !.flushed = FALSE]
    /\ file' = IF p.private \/ p.anon THEN file ELSE [file EXCEPT ![p.off + i] = b]
    /\ last' = [NoOp EXCEPT !.op = "Write", !.q = p]
    /\ UNCHANGED <<platform, regular, handles, rd, panicked>>

\* err := p.Flush()
Flush(fail) ==
    /\ ~panicked /\ p.live
    /\ LET r == flush(p, fail) IN
        /\ p' = [r.p EXCEPT !.flushed = (r.err = "nil")]
        /\ last' = [op |-> "Flush", m |-> (IF p.anon THEN "nil" ELSE "file"),
                    sz |-> p.sz, off |-> p.off, err |-> r.err,
                    failed |-> Failed(fail, r.calls), calls |-> r.calls, q |-> p]
    /\ UNCHANGED <<platform, regular, file, handles, rd, panicked>>

\* err := p.Unmap(), or m.Unmap(p)
Unmap(fail) ==
    /\ ~panicked /\ p.live
    /\ LET r == unmap(p, fail) IN
        /\ p' = IF r.p.live /\ Failed(fail, r.calls) \in FlushPrims
                THEN [r.p EXCEPT !.retry = TRUE] ELSE r.p
        /\ handles' = handles - r.closed
        /\ last' = [op |-> "Unmap", m |-> (IF p.anon THEN "nil" ELSE "file"),
                    sz |-> p.sz, off |-> p.off, err |-> r.err,
                    failed |-> Failed(fail, r.calls), calls |-> r.calls, q |-> p]
    /\ UNCHANGED <<platform, regular, file, rd, panicked>>

\* ----------------------------------------------------------------- Reader
\* sz := fsz; if sz > _MaxMmapSize { sz = _MaxMmapSize }
ChunkSize(fsz) == IF fsz > MaxMmapSize THEN MaxMmapSize ELSE fsz

\* Advance as it would be if z were assigned, not accumulated
Advance_assign(r, sz) ==
    [r EXCEPT !.off = Add64(r.off, sz), !.z = sz, !.fsz = Add64(r.fsz, -sz)]

\* off += sz; z += sz; fsz -= sz
Advance(r, sz) ==
    [r EXCEPT !.off = Add64(r.off, sz), !.z = Add64(r.z, sz), !.fsz = Add64(r.fsz, -sz)]

\* st, err := fd.Stat(); m := New(fd); fsz = st.Size()
ReaderBegin(fail) ==
    /\ ~panicked /\ last.op = "none"
    /\ rd' = IF fail = "Stat"
             THEN [IdleReader EXCEPT !.pc = "done", !.S = fsize, !.err = "stat"]
             ELSE [IdleReader EXCEPT !.pc = "loop", !.S = fsize, !.fsz = fsize]
    /\ last' = [NoOp EXCEPT !.op = "Reader"]
    /\ UNCHANGED <<platform, regular, file, p, handles, panicked>>

\* one pass of the loop body: map the window, call fp on it, unmap it;
\* cerr: fp returns an error
ReaderIter(fail, cerr) ==
    /\ ~panicked /\ rd.pc = "loop" /\ rd.fsz > 0
    /\ LET sz == ChunkSize(rd.fsz)
           r == mmap("file", sz, rd.off, {"PROT_READ"}, {"F_READAHEAD"}, fail)
           u == unmap(r.p, fail)
           w == [off |-> rd.off, len |-> Len(bytes(r.p))]
       IN
        /\ IF r.err # "nil"
           THEN /\ rd' = [rd EXCEPT !.pc = "done", !.n = 0, !.err = r.err]
                /\ handles' = handles + r.opened
           ELSE IF cerr
           THEN /\ rd' = [rd EXCEPT !.pc = "done", !.n = rd.z, !.err = "consumer",
                                    !.wins = Append(rd.wins, w), !.live = rd.live + 1]
                /\ handles' = handles + r.opened
           ELSE /\ rd' = [Advance(rd, sz) EXCEPT
                              !.wins = Append(rd.wins, w),
                              !.live = IF u.p.live THEN rd.live + 1 ELSE rd.live,
                              !.unmapFailed = rd.unmapFailed \/ u.err # "nil"]
                /\ handles' = handles + r.opened - u.closed
    /\ UNCHANGED <<platform, regular, file, p, last, panicked>>

\* the loop ends: return z, nil
ReaderReturn ==
    /\ ~panicked /\ rd.pc = "loop" /\ ~(rd.fsz > 0)
    /\ rd' = [rd EXCEPT !.pc = "done", !.n = rd.z, !.err = "nil"]
    /\ UNCHANGED <<platform, regular, file, p, handles, last, panicked>>

\* the primitives that can fail in one pass of the loop
IterFails == MapFails \cup UnmapFails

\* ---------------------------------------------------------- specification
Prots == SUBSET ProtBits
Flags == SUBSET FlagBits

\* The caller's program is one of the two shapes of the tests: one Mapping
\* made by Map (of any Mapper, with any int64 size and offset), written
\* through, flushed and unmapped; or one call of Reader.
Init ==
    /\ platform \in Platforms
    /\ regular \in BOOLEAN
    /\ \E n \in 0 .. MaxFileSize : file = Zeros(n)
    /\ p = NoMapping
    /\ handles = 0
    /\ last = NoOp
    /\ rd = IdleReader
    /\ panicked = FALSE

Next ==
    \/ /\ last.op = "none"
       /\ \E m \in Mappers, sz \in Int64, off \in Int64, prot \in Prots, flags \in Flags,
             fail \in MapFails : MapCall(m, sz, off, prot, flags, fail)
    \/ \E i \in 1 .. MaxInt64, b \in Byte : Write(i, b)
    \/ \E fail \in FlushFails : Flush(fail)
    \/ \E fail \in UnmapFails : Unmap(fail)
    \/ \E fail \in {"none", "Stat"} : ReaderBegin(fail)
    \/ \E fail \in IterFails, cerr \in BOOLEAN : ReaderIter(fail, cerr)
    \/ ReaderReturn

Spec == Init /\ [][Next]_vars

\* ------------------------------------------------------------- properties
Calls(names) == {i \in 1 .. Len(last.calls) : last.calls[i] \in names}

RECURSIVE SumLens(_, _)
SumLens(ws, k) == IF k = 0 THEN 0 ELSE ws[k].len + SumLens(ws, k - 1)

CeilDiv(a, b) == (a + b - 1) \div b

\* the file b with the bytes v laid over it from offset off
Overlay(b, off, v) ==
    [i \in 1 .. Len(b) |-> IF i > off /\ i <= off + Len(v) THEN v[i - off] ELSE b[i]]

Region(b, q) == SubSeq(b, q.off + 1, q.off + q.sz)

\* C1: when Reader returns after a consumer error (or after full success)
\* and no unmap failed, no mapping that Reader created is still live.
ReaderLeavesNoMapping ==
    (rd.pc = "done" /\ rd.err \in {"nil", "consumer"} /\ ~rd.unmapFailed)
        => rd.live = 0

\* C2: when Reader returns without an error, the consumer was called
\* ceil(S/M) times on contiguous windows that start at 0, each of length
\* 1..M, and the count returned is the file size S seen at the start (for
\* S = 0: no call, count 0).
ReaderVisitsAllChunks ==
    (rd.pc = "done" /\ rd.err = "nil") =>
        /\ Len(rd.wins) = CeilDiv(rd.S, MaxMmapSize)
        /\ \A i \in 1 .. Len(rd.wins) :
              /\ rd.wins[i].off = SumLens(rd.wins, i - 1)
              /\ rd.wins[i].len \in 1 .. MaxMmapSize
        /\ SumLens(rd.wins, Len(rd.wins)) = rd.S
        /\ rd.n = rd.S

ReaderThreeChunks ==
    rd.pc = "done" /\ rd.err = "nil" /\ Len(rd.wins) >= 3 /\ rd.S % MaxMmapSize # 0

\* C3: Map on a regular file of size F > 0 with size > 0 and size > F or
\* size + offset > F (as integers) returns the out-of-bounds error and calls
\* no mapping primitive.
MapRejectsOutOfBounds ==
    ( /\ last.op = "Map" /\ last.m = "file" /\ last.failed # "Stat"
      /\ regular /\ fsize > 0 /\ last.sz > 0
      /\ (last.sz > fsize \/ last.sz + last.off > fsize) )
    => (last.err = "out of bounds" /\ Calls(MapPrims) = {})

\* C4: Map with size <= 0 on a regular file of size F, 0 < F <= maximum
\* mapping size, at an offset in 0..F-1 succeeds when the primitive does and
\* the mapping covers the file bytes [offset, F).
MapWholeRemainingFile ==
    ( /\ last.op = "Map" /\ last.m = "file" /\ last.failed = "none"
      /\ regular /\ fsize > 0 /\ fsize <= MaxMmapSize
      /\ last.sz <= 0 /\ last.off >= 0 /\ last.off < fsize )
    => ( /\ last.err = "nil" /\ p.live
         /\ p.off = last.off /\ p.sz = fsize - last.off
         /\ bytes(p) = SubSeq(file, last.off + 1, fsize) )

\* C5: after writes through a file-backed PROT_WRITE mapping made without
\* F_COW, a Flush and an Unmap, the file read by ordinary I/O holds the
\* mapping's bytes in [offset, offset+size) and its earlier bytes elsewhere.
RoundTrip ==
    ( /\ last.op = "Unmap" /\ last.err = "nil"
      /\ last.q.reqWrite /\ ~last.q.reqCow /\ ~last.q.anon /\ last.q.flushed )
    => file = Overlay(last.q.base, last.q.off, last.q.view)

RoundTripDone ==
    /\ last.op = "Unmap" /\ last.err = "nil"
    /\ last.q.reqWrite /\ ~last.q.reqCow /\ ~last.q.anon /\ last.q.flushed
    /\ last.q.off > 0
    /\ \A i \in 1 .. last.q.sz : last.q.view[i] # Region(last.q.base, last.q)[i]

\* C6: a mapping is private exactly when PROT_WRITE and F_COW were both
\* requested, and the file keeps its contents of before the mapping while
\* such a mapping is written through and after it is unmapped.
CowExactlyWithWrite ==
    /\ p.live => (p.private <=> (p.reqWrite /\ p.reqCow))
    /\ (p.live /\ ~p.anon /\ p.reqWrite /\ p.reqCow) => file = p.base
    /\ (last.op = "Unmap" /\ ~last.q.anon /\ last.q.reqWrite /\ last.q.reqCow)
          => (last.q.private /\ file = last.q.base)

CowWrittenAndUnmapped ==
    /\ last.op = "Unmap" /\ last.err = "nil"
    /\ ~last.q.anon /\ last.q.reqWrite /\ last.q.reqCow
    /\ last.q.view # Region(last.q.base, last.q)

\* C7: Flush of a file-backed PROT_WRITE mapping syncs the pages and then,
\* only after that succeeded, forces the file's buffers to stable storage;
\* the second step is never made for an anonymous or a non-writable mapping;
\* a failure of either step is returned.
PageSyncPrims == {"Msync", "FlushViewOfFile"}
FileSyncPrims == {"Fsync", "FlushFileBuffers"}

FlushTwoSteps ==
    last.op = "Flush" =>
        /\ (last.q.reqWrite /\ ~last.q.anon /\ last.err = "nil")
              => ( /\ Len(last.calls) = 2
                   /\ last.calls[1] \in PageSyncPrims
                   /\ last.calls[2] \in FileSyncPrims )
        /\ (last.q.anon \/ ~last.q.reqWrite) => Calls(FileSyncPrims) = {}
        /\ Calls(FileSyncPrims) # {} => last.failed \notin PageSyncPrims
        /\ last.failed # "none" => last.err # "nil"

\* C8: on Windows, Unmap calls UnmapViewOfFile and CloseHandle only after
\* its flush succeeded; when the flush fails Unmap returns the error, calls
\* no release primitive and leaves the Mapping live and unchanged.
UnmapReleasesAfterFlush ==
    (platform = "windows" /\ last.op = "Unmap") =>
        /\ last.failed \in FlushPrims
              => ( /\ last.err # "nil"
                   /\ Calls(ReleasePrims) = {}
                   /\ p.live /\ handles >= 1
                   /\ [p EXCEPT !.retry = last.q.retry] = last.q )
        /\ Calls(ReleasePrims) # {}
              => ( /\ last.failed \notin FlushPrims
                   /\ Calls(FlushPrims) # {}
                   /\ \A i \in Calls(FlushPrims), j \in Calls(ReleasePrims) : i < j )

UnmapRetried ==
    /\ platform = "windows" /\ last.op = "Unmap" /\ last.err = "nil"
    /\ last.q.retry /\ ~p.live /\ handles = 0

\* C9: an error of a primitive is returned by the operation it occurs in;
\* Reader returns an error when the unmap of a chunk failed.
ErrorsAreReturned ==
    /\ last.failed # "none" => last.err # "nil"
    /\ (rd.pc = "done" /\ rd.unmapFailed) => rd.err # "nil"

\* C10: Map returns an error when a mapping primitive fails, for every
\* Mapper; it never panics.
MapNeverPanics == ~panicked

\* C11: a Map call that returns an error leaves no resource of the operating
\* system behind: the number of open file-mapping handles after it is the
\* number before it (none), also when MapViewOfFile fails after
\* CreateFileMapping succeeded.
FailedMapLeavesNoHandle ==
    (last.op = "Map" /\ last.err # "nil" /\ ~panicked) => handles = 0

====
